---- MODULE Spec2Model ----
(***************************************************************************)
(* Model of src/main.py: the handlers of the Zoom & GHL integration        *)
(* service.  A /process-attendees request is followed from its token call  *)
(* through the two paginated drains and the per-registrant relay loop to   *)
(* its HTTP response (Spec), a /register request from its token call       *)
(* through the registration call to its response (SpecRegister), and two   *)
(* /process-attendees requests are followed side by side (SpecTwo).        *)
(* Python dicts are functions over their keys, lists are sequences, and    *)
(* every outbound HTTP call of a request is appended to its `calls`        *)
(* together with the answer the remote side gave.                          *)
(***************************************************************************)
EXTENDS Integers, Sequences, FiniteSets, TLC

VARIABLES
    request,            \* the HTTP request the handler is serving
    pc,                 \* position of the handler
    access_token,       \* local of process_webinar_attendees (line 212)
    data_key,           \* argument of the running _fetch_all_from_zoom
    params,             \* local of _fetch_all_from_zoom (line 89)
    all_results,        \* local of _fetch_all_from_zoom (line 88)
    registrants,        \* local of process_webinar_attendees (line 215)
    participants,       \* local of process_webinar_attendees (line 216)
    participant_emails, \* local of process_webinar_attendees (line 224)
    processed_count,    \* line 226
    attended_count,     \* line 227
    pos,                \* position of the for loop of line 230
    calls,              \* outbound HTTP calls made so far, with their answers
    response,           \* what the handler answered to its caller
    suspended           \* the locals of the other request being served

vars == <<request, suspended, pc, access_token, data_key, params, all_results, registrants,
          participants, participant_emails, processed_count, attended_count,
          pos, calls, response>>

----------------------------------------------------------------------------
(* Bounds of the model. *)

\* A drain is served at most this many pages.
MaxPages == 2

----------------------------------------------------------------------------
(* Python values. *)

None == "None"
Unset == "unset"
NoResponse == [status |-> 0]

\* dict.get(key, default)
Get(d, k, default) == IF k \in DOMAIN d THEN d[k] ELSE default

\* str.lower(), one character
LowerChar(c) ==
    CASE c = "A" -> "a"
      [] c = "B" -> "b"
      [] c = "X" -> "x"
      [] OTHER -> c

\* str.lower(): a string is the sequence of its characters
Lower(s) == [i \in DOMAIN s |-> LowerChar(s[i])]

\* Truthiness of a value used as `if next_page_token:`
Truthy(v) == v # None /\ v # ""

----------------------------------------------------------------------------
(* The remote sides. *)

\* requests: no response at all (connection error, timeout)
ConnectionError == 0

\* What an outbound call can come back with.
Statuses == {200, 503, ConnectionError}

\* A slip at lines 76, 94: raise_for_status() is not called, only a call
\* without a response raises.
RaisesWithoutResponseOnly(status) == status = ConnectionError

\* response.raise_for_status() raises for 4xx/5xx; a call without a response
\* raises a RequestException by itself.
RaisesRequestException(status) ==
    \/ status = ConnectionError
    \/ (400 =< status /\ status < 600)

\* Bodies the token endpoint answers a 200 with.
TokenBodies == { [access_token |-> "t1"], [token_type |-> "bearer"] }

\* Raw registrant records of the provider.
RegistrantRecords ==
    { [email |-> <<"A", "@", "X">>, first_name |-> "Alice", last_name |-> "L"],
      [email |-> <<"b", "@", "x">>, first_name |-> "Bob"],
      [first_name |-> "Carol"] }

\* Raw participant records of the provider.
ParticipantRecords ==
    { [user_email |-> <<"a", "@", "x">>],
      [user_email |-> <<"B", "@", "X">>],
      [email |-> <<"a", "@", "x">>] }

RecordsOf(key) ==
    IF key = "registrants" THEN RegistrantRecords ELSE ParticipantRecords

\* The arrays one page can carry.
PageArrays(key) == { <<>> } \cup { <<r>> : r \in RecordsOf(key) }

\* Continuation cursors, the k-th page of a drain hands out the k-th one.
Cursors == <<"c1", "c2", "c3", "c4">>

\* A page body: the array under its key and, optionally, a cursor.
PageBody(key, array, cursor) ==
    IF cursor = None
    THEN [k \in {key} |-> array]
    ELSE [k \in {key, "next_page_token"} |->
            IF k = key THEN array ELSE cursor]

Url(key) ==
    IF key = "registrants"
    THEN "https://api.zoom.us/v2/webinars/{webinar_id}/registrants"
    ELSE "https://api.zoom.us/v2/past_webinars/{webinar_id}/participants"

----------------------------------------------------------------------------
(* HTTP responses of the handler. *)

AuthFailure == [status |-> 500, detail |-> <<"Could not authenticate with Zoom.">>]

\* A slip at line 107: the detail does not say what was being fetched.
FetchFailureUnnamed(key) ==
    [status |-> 502, detail |-> <<"Failed to fetch data from Zoom.">>]

FetchFailure(key) ==
    [status |-> 502, detail |-> <<"Failed to fetch ", key, " from Zoom.">>]

\* An exception nothing catches: the framework answers 500.
Unhandled(exc) == [status |-> 500, detail |-> <<"Internal Server Error">>, exception |-> exc]

NothingToProcess ==
    [status |-> 200, message |-> "No registrants found. Nothing to process."]

Summary(processed, attended) ==
    [processed |-> processed, attended |-> attended,
     not_attended |-> processed - attended]

ProcessingComplete(processed, attended) ==
    [status |-> 200, message |-> "Processing complete.",
     summary |-> Summary(processed, attended)]

----------------------------------------------------------------------------
(* The handler. *)

\* A /process-attendees request comes without a body (line 204).
ProcessRequest(id) == [path |-> "/process-attendees", id |-> id]

\* No other request is being served.
NoFrame == [pc |-> "none"]

Init ==
    /\ request = ProcessRequest(1)
    /\ suspended = NoFrame
    /\ pc = "token"
    /\ access_token = Unset
    /\ data_key = Unset
    /\ params = Unset
    /\ all_results = Unset
    /\ registrants = Unset
    /\ participants = Unset
    /\ participant_emails = Unset
    /\ processed_count = 0
    /\ attended_count = 0
    /\ pos = 0
    /\ calls = <<>>
    /\ response = NoResponse

\* A slip at lines 215-216: the participants are fetched first.
PipelineSwapped == <<"participants", "registrants", "reconcile">>

\* Lines 215-218: the registrant drain, the participant drain, then the rest.
Pipeline == <<"registrants", "participants", "reconcile">>

\* The positions of the handler at which a drain runs.
Drains == {"registrants", "participants"}

\* A slip at line 218: the empty roster returns before line 216.
StepAfterShortCircuit(key, roster) ==
    IF key = "registrants" /\ roster = <<>>
    THEN "reconcile"
    ELSE LET i == CHOOSE i \in DOMAIN Pipeline : Pipeline[i] = key
         IN Pipeline[i + 1]

\* Where the handler goes when the drain of `key` has returned `roster`:
\* line 216 follows line 215 and line 218 follows line 216, whatever came.
StepAfter(key, roster) ==
    LET i == CHOOSE i \in DOMAIN Pipeline : Pipeline[i] = key
    IN Pipeline[i + 1]

\* Entering _fetch_all_from_zoom(url, headers, key): lines 88-89.
EnterFetch(key) ==
    /\ data_key' = key
    /\ all_results' = <<>>
    /\ params' = [page_size |-> 300]

\* get_zoom_access_token, called at line 212.
get_zoom_access_token ==
    /\ UNCHANGED <<request, suspended>>
    /\ pc = "token"
    /\ \E status \in Statuses, body \in TokenBodies :
         /\ calls' = Append(calls,
                [kind |-> "token", status |-> status,
                 data |-> IF RaisesRequestException(status)
                          THEN None ELSE body])
         /\ IF RaisesRequestException(status)
            THEN /\ response' = AuthFailure
                 /\ pc' = "done"
                 /\ UNCHANGED <<access_token, data_key, params, all_results>>
            ELSE /\ access_token' = Get(body, "access_token", None)
                 /\ pc' = Pipeline[1]
                 /\ EnterFetch(Pipeline[1])
                 /\ UNCHANGED response
    /\ UNCHANGED <<registrants, participants, participant_emails,
                   processed_count, attended_count, pos>>

\* Number of pages the running drain has been served.
PagesServed ==
    Cardinality({i \in DOMAIN calls :
                    calls[i].kind = "get" /\ calls[i].key = data_key})

\* What _fetch_all_from_zoom returns when its loop breaks (line 109).
FetchReturn(results) == results

\* A slip at line 98: the page replaces what was accumulated.
ExtendReplacing(results, results_on_page) == results_on_page

\* all_results.extend(results_on_page), line 98.
Extend(results, results_on_page) == results \o results_on_page

\* params["next_page_token"] = next_page_token, line 102.
SetCursor(p, next_page_token) ==
    [k \in DOMAIN p \cup {"next_page_token"} |->
        IF k = "next_page_token" THEN next_page_token ELSE p[k]]

\* One iteration of the loop of _fetch_all_from_zoom (lines 91-107).
fetch_all_from_zoom ==
    /\ UNCHANGED <<request, suspended>>
    /\ pc \in Drains
    /\ \E status \in Statuses, array \in PageArrays(data_key),
          more \in BOOLEAN, blank \in BOOLEAN :
         LET cursor == IF more THEN Cursors[PagesServed + 1]
                       ELSE IF blank THEN "" ELSE None
             data == PageBody(data_key, array, cursor)
             raised == RaisesRequestException(status)
             results == Extend(all_results, Get(data, data_key, <<>>))
             next_page_token == Get(data, "next_page_token", None)
         IN
         /\ more => PagesServed + 1 < MaxPages
         /\ raised => (array = <<>> /\ ~more /\ ~blank)
         /\ calls' = Append(calls,
                [kind |-> "get", key |-> data_key, url |-> Url(data_key),
                 token |-> access_token, params |-> params,
                 status |-> status,
                 data |-> IF raised THEN None ELSE data])
         /\ IF raised
            THEN /\ response' = FetchFailure(data_key)
                 /\ pc' = "done"
                 /\ UNCHANGED <<data_key, params, all_results,
                                registrants, participants>>
            ELSE IF Truthy(next_page_token)
            THEN /\ all_results' = results
                 /\ params' = SetCursor(params, next_page_token)
                 /\ UNCHANGED <<pc, data_key, registrants, participants,
                                response>>
            ELSE LET next == StepAfter(data_key, results) IN
                 /\ IF data_key = "registrants"
                    THEN /\ registrants' = FetchReturn(results)
                         /\ UNCHANGED participants
                    ELSE /\ participants' = FetchReturn(results)
                         /\ UNCHANGED registrants
                 /\ pc' = next
                 /\ IF next \in Drains
                    THEN EnterFetch(next)
                    ELSE /\ all_results' = results
                         /\ UNCHANGED <<data_key, params>>
                 /\ UNCHANGED response
    /\ UNCHANGED <<access_token, participant_emails, processed_count,
                   attended_count, pos>>

\* A slip at line 218: the empty roster is not recognised.
IsEmptyRosterNever(roster) == FALSE

\* `not registrants` of line 218.
IsEmptyRoster(roster) == roster = <<>>

\* The set comprehension of line 224; p["user_email"] raises KeyError for a
\* record without that key.
ParticipantEmailsRaises(roster) ==
    \E i \in DOMAIN roster : "user_email" \notin DOMAIN roster[i]

ParticipantEmails(roster) ==
    { Lower(roster[i]["user_email"]) : i \in DOMAIN roster }

\* Lines 218-227: the empty-roster return, the participant-email set and the
\* counters.
reconcile ==
    /\ UNCHANGED <<request, suspended>>
    /\ pc = "reconcile"
    /\ IF IsEmptyRoster(registrants)
       THEN /\ response' = NothingToProcess
            /\ pc' = "done"
            /\ UNCHANGED <<participant_emails, processed_count,
                           attended_count, pos>>
       ELSE IF ParticipantEmailsRaises(participants)
       THEN /\ response' = Unhandled("KeyError")
            /\ pc' = "done"
            /\ UNCHANGED <<participant_emails, processed_count,
                           attended_count, pos>>
       ELSE /\ participant_emails' = ParticipantEmails(participants)
            /\ processed_count' = 0
            /\ attended_count' = 0
            /\ pos' = 1
            /\ pc' = "relay"
            /\ UNCHANGED response
    /\ UNCHANGED <<access_token, data_key, params, all_results, registrants,
                   participants, calls>>

\* A slip at line 231: the registrant's email is compared as it came.
RegistrantEmailRaw(registrant) == registrant["email"]

\* Line 231.
RegistrantEmail(registrant) == Lower(registrant["email"])

\* A slip at line 233: every record relayed counts as attended, as if the
\* roster came classified.
AttendedStatusPreclassified(registrant_email, emails) == 1

\* Line 233.
AttendedStatus(registrant_email, emails) ==
    IF registrant_email \in emails THEN 1 ELSE 0

\* A slip at lines 235-236: the counter moves for every registrant.
CountAttendedAlways(count, attended_status) == count + 1

\* Lines 235-236.
CountAttended(count, attended_status) ==
    IF attended_status = 1 THEN count + 1 ELSE count

\* Lines 239-244.
ContactPayload(registrant, attended_status) ==
    [first_name |-> Get(registrant, "first_name", None),
     last_name |-> Get(registrant, "last_name", None),
     email |-> Get(registrant, "email", None),
     attended |-> attended_status]

\* A slip at lines 137-138: the exception of a failed delivery gets out.
send_to_ghl_webhook_reraises(status) ==
    status = 0 \/ (400 =< status /\ status < 600)

\* send_to_ghl_webhook: whether the call lets an exception out (lines
\* 133-138 catch every RequestException).
send_to_ghl_webhook_raises(status) == FALSE

\* One iteration of the for loop of lines 230-246.
relay_registrant ==
    /\ UNCHANGED <<request, suspended>>
    /\ pc = "relay"
    /\ pos =< Len(registrants)
    /\ LET registrant == registrants[pos] IN
       IF "email" \notin DOMAIN registrant
       THEN /\ response' = Unhandled("KeyError")
            /\ pc' = "done"
            /\ UNCHANGED <<processed_count, attended_count, pos, calls>>
       ELSE
         LET registrant_email == RegistrantEmail(registrant)
             attended_status == AttendedStatus(registrant_email,
                                               participant_emails)
             contact_payload == ContactPayload(registrant, attended_status)
         IN \E status \in Statuses :
              /\ calls' = Append(calls, [kind |-> "relay",
                                         json |-> contact_payload,
                                         status |-> status])
              /\ attended_count' = CountAttended(attended_count,
                                                 attended_status)
              /\ IF send_to_ghl_webhook_raises(status)
                 THEN /\ response' = Unhandled("RequestException")
                      /\ pc' = "done"
                      /\ UNCHANGED <<processed_count, pos>>
                 ELSE /\ processed_count' = processed_count + 1
                      /\ pos' = pos + 1
                      /\ UNCHANGED <<pc, response>>
    /\ UNCHANGED <<access_token, data_key, params, all_results, registrants,
                   participants, participant_emails>>

\* Lines 248-252, after the loop.
finish ==
    /\ UNCHANGED <<request, suspended>>
    /\ pc = "relay"
    /\ pos > Len(registrants)
    /\ response' = ProcessingComplete(processed_count, attended_count)
    /\ pc' = "done"
    /\ UNCHANGED <<access_token, data_key, params, all_results, registrants,
                   participants, participant_emails, processed_count,
                   attended_count, pos, calls>>

\* process_webinar_attendees, one step of it.
process_webinar_attendees ==
    \/ get_zoom_access_token
    \/ fetch_all_from_zoom
    \/ reconcile
    \/ relay_registrant
    \/ finish

Next == process_webinar_attendees

Spec == Init /\ [][Next]_vars

----------------------------------------------------------------------------
(* The /register handler. *)

\* Bodies that pass the Registrant model of lines 54-57: last_name is None
\* when the caller left it out.
RegistrantBodies ==
    { [first_name |-> "Ann", last_name |-> l, email |-> e] :
        l \in {None, "L"},
        e \in { <<"a", "@", "x">>, <<"B", "@", "X">>, <<"c", "@", "x">> } }

RegisterRequests ==
    { [path |-> "/register", id |-> 1, body |-> b] : b \in RegistrantBodies }

\* What the registrant-creation endpoint can come back with.
RegisterStatuses == {201, 200, 204, 409, 400, 404, 500, ConnectionError}

\* What the endpoint says along with a status: the JSON of a 201, the text
\* of anything else.
RegistrationAnswers(status) ==
    IF status = ConnectionError THEN { None }
    ELSE IF status = 201
    THEN { [registrant_id |-> "r1", join_url |-> "https://zoom.us/w/1",
            id |-> "w1"],
           [registrant_id |-> "r1"] }
    ELSE { "", "{code: 3001, message: Webinar does not exist}" }

InitRegister ==
    /\ request \in RegisterRequests
    /\ suspended = NoFrame
    /\ pc = "register_token"
    /\ access_token = Unset
    /\ data_key = Unset
    /\ params = Unset
    /\ all_results = Unset
    /\ registrants = Unset
    /\ participants = Unset
    /\ participant_emails = Unset
    /\ processed_count = 0
    /\ attended_count = 0
    /\ pos = 0
    /\ calls = <<>>
    /\ response = NoResponse

\* Line 153.
NoTokenFailure ==
    [status |-> 500, detail |-> <<"Failed to get Zoom access token.">>]

\* Lines 150-153: get_zoom_access_token and the safeguard after it.
register_access_token ==
    /\ pc = "register_token"
    /\ \E status \in Statuses, body \in TokenBodies :
         LET token == Get(body, "access_token", None) IN
         /\ calls' = Append(calls,
                [kind |-> "token", status |-> status,
                 data |-> IF RaisesRequestException(status)
                          THEN None ELSE body])
         /\ IF RaisesRequestException(status)
            THEN /\ response' = AuthFailure
                 /\ pc' = "done"
                 /\ UNCHANGED access_token
            ELSE IF ~Truthy(token)
            THEN /\ response' = NoTokenFailure
                 /\ pc' = "done"
                 /\ access_token' = token
            ELSE /\ access_token' = token
                 /\ pc' = "register_post"
                 /\ UNCHANGED response
    /\ UNCHANGED <<request, suspended, data_key, params, all_results,
                   registrants, participants, participant_emails,
                   processed_count, attended_count, pos>>

\* Lines 164-168.
RegistrationPayload(registrant) ==
    [email |-> registrant.email,
     first_name |-> registrant.first_name,
     last_name |-> registrant.last_name]

\* Line 175.
IsCreated(status) == status = 201

\* A slip at line 186: every 4xx is taken for the conflict.
IsConflictAnyClientError(status) == 400 =< status /\ status < 500

\* Line 186.
IsConflict(status) == status = 409

\* Lines 178-183; the route answers 200.
Registered(response_data) ==
    [status |-> 200,
     message |-> "Contact successfully registered for the webinar.",
     registrant_id |-> Get(response_data, "registrant_id", None),
     join_url |-> Get(response_data, "join_url", None),
     webinar_id |-> Get(response_data, "id", None)]

\* Line 188.
Conflict ==
    [status |-> 409,
     detail |-> <<"This email address has already been registered for the webinar.">>]

\* Lines 195-197.
CommunicationFailure ==
    [status |-> 502,
     detail |-> <<"An error occurred while communicating with the Zoom API.">>]

\* Line 199; the route answers 200.
Fallback == [status |-> 200, message |-> "An unexpected error occurred."]

\* Lines 171-199: what the handler answers to the registration call's
\* outcome.
RegistrationOutcome(status, answer) ==
    IF status = ConnectionError THEN CommunicationFailure
    ELSE IF IsCreated(status) THEN Registered(answer)
    ELSE IF IsConflict(status) THEN Conflict
    ELSE IF RaisesRequestException(status) THEN CommunicationFailure
    ELSE Fallback

\* Lines 156-199: the registration call.
register_post ==
    /\ pc = "register_post"
    /\ \E status \in RegisterStatuses :
       \E answer \in RegistrationAnswers(status) :
         /\ calls' = Append(calls,
                [kind |-> "register",
                 url |-> "https://api.zoom.us/v2/webinars/{webinar_id}/registrants",
                 token |-> access_token,
                 json |-> RegistrationPayload(request.body),
                 status |-> status, answer |-> answer])
         /\ response' = RegistrationOutcome(status, answer)
         /\ pc' = "done"
    /\ UNCHANGED <<request, suspended, access_token, data_key, params,
                   all_results, registrants, participants,
                   participant_emails, processed_count, attended_count, pos>>

\* register_for_webinar, one step of it.
register_for_webinar ==
    \/ register_access_token
    \/ register_post

NextRegister == register_for_webinar

SpecRegister == InitRegister /\ [][NextRegister]_vars

----------------------------------------------------------------------------
(* Two /process-attendees requests side by side. *)

\* Everything a request works on is a local of its handler and of the
\* functions it calls (lines 88-89, 212-246): the module-level names of
\* lines 30-34 are only read.
Frame ==
    [request |-> request, pc |-> pc, access_token |-> access_token,
     data_key |-> data_key, params |-> params, all_results |-> all_results,
     registrants |-> registrants, participants |-> participants,
     participant_emails |-> participant_emails,
     processed_count |-> processed_count, attended_count |-> attended_count,
     pos |-> pos, calls |-> calls, response |-> response]

\* The locals of a request that has just arrived.
InitialFrame(id) ==
    [request |-> ProcessRequest(id), pc |-> "token", access_token |-> Unset,
     data_key |-> Unset, params |-> Unset, all_results |-> Unset,
     registrants |-> Unset, participants |-> Unset,
     participant_emails |-> Unset, processed_count |-> 0,
     attended_count |-> 0, pos |-> 0, calls |-> <<>>,
     response |-> NoResponse]

InitTwo ==
    /\ request = ProcessRequest(1)
    /\ suspended = InitialFrame(2)
    /\ pc = "token"
    /\ access_token = Unset
    /\ data_key = Unset
    /\ params = Unset
    /\ all_results = Unset
    /\ registrants = Unset
    /\ participants = Unset
    /\ participant_emails = Unset
    /\ processed_count = 0
    /\ attended_count = 0
    /\ pos = 0
    /\ calls = <<>>
    /\ response = NoResponse

\* A slip at line 212: the token is kept in a module-level name, a request
\* that resumes finds the token the other request stored last.
ResumedSharingToken(frame) == [frame EXCEPT !.access_token = access_token]

\* What a request finds when it goes on: its own locals.
Resumed(frame) == frame

\* The other request goes on, this one waits.
switch ==
    /\ suspended # NoFrame
    /\ LET f == Resumed(suspended) IN
       /\ suspended' = Frame
       /\ request' = f.request
       /\ pc' = f.pc
       /\ access_token' = f.access_token
       /\ data_key' = f.data_key
       /\ params' = f.params
       /\ all_results' = f.all_results
       /\ registrants' = f.registrants
       /\ participants' = f.participants
       /\ participant_emails' = f.participant_emails
       /\ processed_count' = f.processed_count
       /\ attended_count' = f.attended_count
       /\ pos' = f.pos
       /\ calls' = f.calls
       /\ response' = f.response

\* The answers the remote sides give while two requests are followed: 200
\* or 503; registrant pages with Alice, with Bob or empty, the first of
\* which may carry a cursor; one participant page, with a@x or empty.
NarrowCall(c) ==
    /\ c.status \in {200, 503}
    /\ (c.kind = "get" /\ c.status = 200) =>
          /\ \A i \in DOMAIN c.data[c.key] :
                DOMAIN c.data[c.key][i] \in
                    { {"email", "first_name", "last_name"},
                      {"email", "first_name"} }
                \/ c.data[c.key][i] = [user_email |-> <<"a", "@", "x">>]
          /\ Get(c.data, "next_page_token", None) \in {None, Cursors[1]}
          /\ "next_page_token" \in DOMAIN c.data => c.key = "registrants"

Narrow == calls = <<>> \/ NarrowCall(calls[Len(calls)])

NextTwo ==
    \/ process_webinar_attendees /\ Narrow'
    \/ switch

SpecTwo == InitTwo /\ [][NextTwo]_vars

----------------------------------------------------------------------------
(* What an observer of the network sees. *)

\* The relay calls made so far, in the order they were made.
RelayCalls == SelectSeq(calls, LAMBDA c : c.kind = "relay")

\* The page requests of one drain, in the order they were made.
GetCalls(key) == SelectSeq(calls, LAMBDA c : c.kind = "get" /\ c.key = key)

\* The roster a drain handed to the handler, Unset while it has not.
Returned(key) == IF key = "registrants" THEN registrants ELSE participants

\* A page response that carries a continuation cursor.
HasCursor(c) ==
    /\ c.status = 200
    /\ "next_page_token" \in DOMAIN c.data
    /\ c.data["next_page_token"] # ""

RECURSIVE ConcatPages(_, _)
\* The arrays of the first n page responses of G, one after the other.
ConcatPages(G, n) ==
    IF n = 0 THEN <<>>
    ELSE ConcatPages(G, n - 1) \o G[n].data[G[n].key]

\* The lowercase emails of the participant records that carry `user_email`.
LoweredParticipantEmails ==
    { Lower(participants[j]["user_email"]) :
        j \in { i \in DOMAIN participants :
                  "user_email" \in DOMAIN participants[i] } }

\* The request ended with the success envelope {message, summary}.
HasSummary == "summary" \in DOMAIN response

----------------------------------------------------------------------------
(* The claims. *)

\* C1: every registrant relayed carries attended = 1 exactly when its
\* lowercased email is one of the lowercased participant emails, and
\* attended = 0 otherwise.
C1_AttendedIffLowercaseMember ==
    \A k \in DOMAIN RelayCalls :
        RelayCalls[k].json.attended =
            IF Lower(registrants[k]["email"]) \in LoweredParticipantEmails
            THEN 1 ELSE 0

\* C1 witness: a run that completed after relaying a registrant as attended
\* whose email matches a participant's only once both are lowercased.
C1_Witness ==
    /\ HasSummary
    /\ \E k \in DOMAIN RelayCalls :
         /\ RelayCalls[k].json.attended = 1
         /\ \A j \in DOMAIN participants :
              participants[j]["user_email"] # registrants[k]["email"]

\* C2: when the token call and both drains succeeded, the finished run has
\* relayed every record of the registrant roster exactly once, in roster
\* order: as many relay calls as records, the k-th call carrying the k-th
\* record.
C2_EveryRegistrantRelayedOnceInOrder ==
    (pc = "done" /\ access_token = "t1" /\ participants # Unset) =>
        /\ Len(RelayCalls) = Len(registrants)
        /\ \A k \in DOMAIN RelayCalls :
             RelayCalls[k].json.first_name = registrants[k]["first_name"]

\* C3: a drain asks for a page once per page served: the first request has
\* no cursor, each later one carries the cursor of the response before it,
\* the drain returns only after a page without a cursor, and what it returns
\* is the pages' arrays one after the other in page order.
C3_DrainConcatenatesPages ==
    \A key \in {"registrants", "participants"} :
        LET G == GetCalls(key) IN
        /\ \A k \in DOMAIN G :
             /\ G[k].params["page_size"] = 300
             /\ k = 1 => DOMAIN G[k].params = {"page_size"}
             /\ k > 1 =>
                  /\ HasCursor(G[k - 1])
                  /\ DOMAIN G[k].params = {"page_size", "next_page_token"}
                  /\ G[k].params["next_page_token"] =
                        G[k - 1].data["next_page_token"]
        /\ Returned(key) # Unset =>
             /\ Len(G) >= 1
             /\ G[Len(G)].status = 200
             /\ ~HasCursor(G[Len(G)])
             /\ Returned(key) = ConcatPages(G, Len(G))

\* C3 witness: a registrant drain of two pages, one record each, returned.
C3_Witness ==
    /\ registrants # Unset
    /\ Len(GetCalls("registrants")) = 2
    /\ \A k \in {1, 2} : Len(GetCalls("registrants")[k].data["registrants"]) = 1
    /\ Len(registrants) = 2

\* The positions of the roster whose record carries `email`.
WithEmail == { j \in DOMAIN registrants : "email" \in DOMAIN registrants[j] }

\* C4: a failed delivery of the k-th registrant neither stops the loop nor is
\* repeated: the k-th relay call is for the k-th registrant, after a failed
\* one the next registrant is attempted (or the run ends), and the processed
\* count of the summary is the number of relay calls made, failed or not.
C4_RelayFailureIsolated ==
    /\ \A k \in DOMAIN RelayCalls :
         /\ RelayCalls[k].json.first_name = registrants[k]["first_name"]
         /\ RelayCalls[k].status # 200 =>
              \/ k < Len(RelayCalls)
              \/ pc = "relay" /\ pos = k + 1
              \/ HasSummary /\ k = Len(registrants)
              \/ /\ k < Len(registrants)
                 /\ (k + 1) \notin WithEmail
                 /\ response.status = 500
                 /\ response.exception = "KeyError"
    /\ HasSummary =>
         /\ response.summary.processed = Len(RelayCalls)
         /\ Len(RelayCalls) = Len(registrants)

\* C4 witness: a run completed with a summary in which a failed delivery was
\* followed by the delivery of the next registrant.
C4_Witness ==
    /\ HasSummary
    /\ \E k \in DOMAIN RelayCalls :
         /\ RelayCalls[k].status # 200
         /\ k < Len(RelayCalls)

RECURSIVE FirstNames(_, _)
\* The first names of the records of roster[1..n] that carry `email`.
FirstNames(roster, n) ==
    IF n = 0 THEN <<>>
    ELSE IF "email" \in DOMAIN roster[n]
    THEN Append(FirstNames(roster, n - 1), roster[n]["first_name"])
    ELSE FirstNames(roster, n - 1)

\* C5: a record without its identity field is left out and nothing else
\* changes: when the token call and both drains succeeded and there are
\* registrants, the request ends with a summary, having relayed exactly the
\* registrants that carry `email`, in order.
C5_IdentitylessRecordSkipped ==
    ( /\ pc = "done"
      /\ access_token = "t1"
      /\ participants # Unset
      /\ Len(registrants) > 0 ) =>
        /\ HasSummary
        /\ Len(RelayCalls) = Cardinality(WithEmail)
        /\ [k \in DOMAIN RelayCalls |-> RelayCalls[k].json.first_name]
             = FirstNames(registrants, Len(registrants))

\* C6: a failed token call or page request is the last outbound call of the
\* request: the request has ended, with 500 for the token call and 502 for
\* a page request, no relay call was made and there is no summary.
C6_FetchAuthErrorsAbort ==
    \A i \in DOMAIN calls :
        (calls[i].kind \in {"token", "get"} /\ calls[i].status # 200) =>
            /\ i = Len(calls)
            /\ pc = "done"
            /\ response.status = IF calls[i].kind = "token" THEN 500 ELSE 502
            /\ ~HasSummary
            /\ RelayCalls = <<>>

\* C6 witness: the second participant page fails after a registrant roster
\* that could have been relayed was drained.
C6_Witness ==
    /\ pc = "done"
    /\ response.status = 502
    /\ registrants # Unset
    /\ WithEmail # {}
    /\ Len(GetCalls("participants")) = 2
    /\ calls[Len(calls)].status # 200

\* C7: when a page request of a drain fails, it is the drain's last request
\* and the request's last outbound call, the drain hands no roster to the
\* handler, and the request fails with 502 and a detail naming the result
\* key.
C7_DrainAllOrNothing ==
    \A key \in {"registrants", "participants"} :
        LET G == GetCalls(key) IN
        \A k \in DOMAIN G :
            G[k].status # 200 =>
                /\ k = Len(G)
                /\ calls[Len(calls)] = G[k]
                /\ Returned(key) = Unset
                /\ response.status = 502
                /\ response.detail = <<"Failed to fetch ", key, " from Zoom.">>

\* C7 witness: the second registrant page fails after a first page whose
\* record had been accumulated.
C7_Witness ==
    /\ pc = "done"
    /\ response.status = 502
    /\ data_key = "registrants"
    /\ Len(GetCalls("registrants")) = 2
    /\ Len(all_results) = 1
    /\ registrants = Unset

\* C8 as stated: with an empty registrant roster and both drains done, no
\* relay call is made and the response reports a summary with zero
\* processed.
C8_EmptyRosterSummaryZero ==
    ( /\ pc = "done"
      /\ registrants # Unset
      /\ registrants = <<>>
      /\ participants # Unset ) =>
        /\ RelayCalls = <<>>
        /\ HasSummary
        /\ response.summary.processed = 0

\* C8 as amended: with an empty registrant roster no relay call is made,
\* and once the participant drain has succeeded too the response is the
\* message "No registrants found. Nothing to process.", without a summary.
C8_EmptyRosterNothingToProcess ==
    (registrants # Unset /\ registrants = <<>>) =>
        /\ RelayCalls = <<>>
        /\ (pc = "done" /\ participants # Unset) =>
             /\ response.status = 200
             /\ response.message = "No registrants found. Nothing to process."
             /\ ~HasSummary

\* C8 witness: a finished request whose registrant roster is empty while
\* participants were found.
C8_Witness ==
    /\ pc = "done"
    /\ registrants # Unset
    /\ registrants = <<>>
    /\ participants # Unset
    /\ participants # <<>>
    /\ response.status = 200

\* C9: in the summary, attended and not attended add up to the length of the
\* registrant roster, attended being the number of relay calls that carried
\* attended = 1 and not attended the number that carried attended = 0.
C9_CountsAddUp ==
    HasSummary =>
        LET s == response.summary IN
        /\ s.attended + s.not_attended = Len(registrants)
        /\ s.attended = Cardinality({ k \in DOMAIN RelayCalls :
                                        RelayCalls[k].json.attended = 1 })
        /\ s.not_attended = Cardinality({ k \in DOMAIN RelayCalls :
                                            RelayCalls[k].json.attended = 0 })

\* C9 witness: a summary counting both an attended and a not attended
\* registrant.
C9_Witness ==
    /\ HasSummary
    /\ response.summary.attended >= 1
    /\ response.summary.not_attended >= 1

\* C10: the email of every relay payload is the lowercased email of some
\* registrant of the roster.
C10_RelayedEmailIsLowercased ==
    \A k \in DOMAIN RelayCalls :
        RelayCalls[k].json.email \in
            { Lower(registrants[j]["email"]) : j \in WithEmail }

\* The place of an outbound call in the pipeline.
Rank(c) ==
    IF c.kind = "token" THEN 1
    ELSE IF c.kind = "get" /\ c.key = "registrants" THEN 2
    ELSE IF c.kind = "get" THEN 3
    ELSE 4

\* The log shows the drain of `key` ran to its last page.
DrainCompleted(key) ==
    LET G == GetCalls(key) IN
    /\ Len(G) >= 1
    /\ G[Len(G)].status = 200
    /\ ~HasCursor(G[Len(G)])

\* C13: the outbound calls of a request come one after the other in the
\* order token call, registrant pages, participant pages, relays: one token
\* call, first; no page request before the token call was answered; no
\* participant page before the registrant drain ran to its last page; no
\* relay before the participant drain ran to its last page.  (Every call of
\* the log carries its answer: the handler makes blocking calls.)
C13_CallsInPipelineOrder ==
    /\ \A i, j \in DOMAIN calls : i < j => Rank(calls[i]) =< Rank(calls[j])
    /\ \A i \in DOMAIN calls : (calls[i].kind = "token") <=> (i = 1)
    /\ Len(calls) > 1 => calls[1].status = 200
    /\ GetCalls("participants") # <<>> => DrainCompleted("registrants")
    /\ RelayCalls # <<>> =>
         /\ DrainCompleted("registrants")
         /\ DrainCompleted("participants")

\* C13 witness: a request that made the token call, two registrant page
\* requests, two participant page requests and two relay calls.
C13_Witness ==
    /\ HasSummary
    /\ Len(GetCalls("registrants")) = 2
    /\ Len(GetCalls("participants")) = 2
    /\ Len(RelayCalls) = 2

\* C14: a request that has made a relay call ends with the success envelope
\* {message, summary}, whatever the relays came back with and whatever the
\* remaining registrant records hold.
C14_RelayingRunReturnsSummary ==
    (pc = "done" /\ RelayCalls # <<>>) => HasSummary

\* C16: a participant record that carries its identity under `email` is used
\* in the participant-email set: the run does not fail, and a registrant
\* with the same email, case aside, is relayed with attended = 1.
C16_ParticipantEmailKeyResolved ==
    ( /\ pc = "done"
      /\ access_token = "t1"
      /\ participants # Unset
      /\ \A k \in DOMAIN registrants : k \in WithEmail
      /\ \A k \in DOMAIN participants :
            DOMAIN participants[k] \in {{"email"}, {"user_email"}} ) =>
        \A j \in DOMAIN registrants, i \in DOMAIN participants :
            ( /\ DOMAIN participants[i] = {"email"}
              /\ Lower(registrants[j]["email"])
                   = Lower(participants[i]["email"]) ) =>
                /\ HasSummary
                /\ j \in DOMAIN RelayCalls
                /\ RelayCalls[j].json.attended = 1

C18_ShortCircuitAfterParticipantDrain ==
    (pc = "done" /\ registrants # Unset /\ registrants = <<>>) =>
        LET G == GetCalls("participants") IN
        /\ Len(G) >= 1
        /\ IF G[Len(G)].status # 200
           THEN /\ response.status = 502
                /\ "message" \notin DOMAIN response
           ELSE /\ DrainCompleted("participants")
                /\ participants # Unset
                /\ response.message = "No registrants found. Nothing to process."

\* C18 witness: the registrant roster is empty and the second participant
\* page fails: the request ends with 502.
C18_Witness ==
    /\ pc = "done"
    /\ registrants # Unset
    /\ registrants = <<>>
    /\ Len(GetCalls("participants")) = 2
    /\ calls[Len(calls)].status # 200
    /\ response.status = 502

\* The registration calls made so far.
RegisterCalls == SelectSeq(calls, LAMBDA c : c.kind = "register")

\* C11: /register answers with success exactly when the registration call
\* came back 201; for any other status, other 2xx included, and for a call
\* without a response the caller never receives a 200.
C11_SuccessOnlyOn201 ==
    (request.path = "/register" /\ pc = "done") =>
        /\ response.status = 200 <=>
             \E i \in DOMAIN RegisterCalls : RegisterCalls[i].status = 201
        /\ response.status = 200 =>
             {"registrant_id", "join_url"} \subseteq DOMAIN response

\* C12 as stated: an upstream 409 is answered 409 and nothing else is; any
\* other upstream failure status is answered with that status and the
\* upstream error text.
C12_OtherFailuresPassedThrough ==
    \A i \in DOMAIN RegisterCalls :
        LET c == RegisterCalls[i] IN
        /\ c.status = 409 <=> response.status = 409
        /\ (c.status >= 400 /\ c.status # 409) =>
              /\ response.status = c.status
              /\ response.detail = <<c.answer>>

\* C12 as amended: an upstream 409 is answered 409 and nothing else is; any
\* other upstream 4xx/5xx, like a call without a response, is answered 502
\* with the fixed detail "An error occurred while communicating with the
\* Zoom API.", whatever the upstream said.
C12_OtherFailuresAnswered502 ==
    \A i \in DOMAIN RegisterCalls :
        LET c == RegisterCalls[i] IN
        /\ c.status = 409 <=> response.status = 409
        /\ ((c.status >= 400 /\ c.status # 409) \/ c.status = 0) =>
              /\ response.status = 502
              /\ response.detail =
                   <<"An error occurred while communicating with the Zoom API.">>

\* C12 witness: an upstream 400 with an error text was answered 502, and
\* the text is not in the answer.
C12_Witness ==
    /\ pc = "done"
    /\ \E i \in DOMAIN RegisterCalls :
         /\ RegisterCalls[i].status = 400
         /\ RegisterCalls[i].answer # ""
         /\ response.status = 502
         /\ response.detail # <<RegisterCalls[i].answer>>

\* The page requests of one drain in a request's own log.
GetCallsOf(log, key) ==
    SelectSeq(log, LAMBDA c : c.kind = "get" /\ c.key = key)

\* The roster a request's own page responses add up to.
RosterOf(log, key) ==
    ConcatPages(GetCallsOf(log, key), Len(GetCallsOf(log, key)))

\* What a request that is alone relays for the k-th registrant of the
\* rosters R and P.
PayloadAlone(R, P, k) ==
    [first_name |-> Get(R[k], "first_name", None),
     last_name |-> Get(R[k], "last_name", None),
     email |-> R[k]["email"],
     attended |->
        IF \E i \in DOMAIN P :
              Lower(P[i]["user_email"]) = Lower(R[k]["email"])
        THEN 1 ELSE 0]

\* A request's calls and answer are what its own upstream responses make
\* them: its page requests carry the token its token call was answered with
\* and the cursor its previous page response carried, its relay payloads are
\* those of its own rosters, and so is its summary.
OwnUpstreamOnly(f) ==
    LET log == f.calls
        relays == SelectSeq(log, LAMBDA c : c.kind = "relay")
    IN
    /\ \A i \in DOMAIN log :
         log[i].kind = "get" =>
            log[i].token = Get(log[1].data, "access_token", None)
    /\ \A key \in Drains :
         LET G == GetCallsOf(log, key) IN
         \A k \in DOMAIN G :
            IF k = 1
            THEN DOMAIN G[k].params = {"page_size"}
            ELSE G[k].params["next_page_token"] =
                    G[k - 1].data["next_page_token"]
    /\ relays # <<>> =>
         LET R == RosterOf(log, "registrants")
             P == RosterOf(log, "participants")
         IN \A k \in DOMAIN relays : relays[k].json = PayloadAlone(R, P, k)
    /\ "summary" \in DOMAIN f.response =>
         LET R == RosterOf(log, "registrants")
             P == RosterOf(log, "participants")
             attended == Cardinality({ k \in DOMAIN R :
                                         PayloadAlone(R, P, k).attended = 1 })
         IN /\ Len(relays) = Len(R)
            /\ f.response.summary =
                 [processed |-> Len(R), attended |-> attended,
                  not_attended |-> Len(R) - attended]

\* C15: of two requests served side by side, switched at any step, each
\* one's page requests, relay payloads and summary are what its own upstream
\* responses make them: nothing of the other's token, cursor, rosters or
\* counters shows in them.
C15_RequestsIndependent ==
    /\ OwnUpstreamOnly(Frame)
    /\ OwnUpstreamOnly(suspended)

\* C15 witness: both requests are in their relay loops at once, one with a
\* token and one without, with different registrant and participant
\* rosters, one counting an attendee and the other none.
C15_Witness ==
    /\ pc = "relay"
    /\ suspended.pc = "relay"
    /\ access_token # suspended.access_token
    /\ registrants # suspended.registrants
    /\ participants # suspended.participants
    /\ processed_count = 1
    /\ suspended.processed_count = 1
    /\ attended_count # suspended.attended_count

====
